---- MODULE Spec2Model ----
(***************************************************************************)
(* Model of the change-triggered photo sampler of photoflow-sequence,      *)
(* src/src/pages/Index.tsx (the Capacitor version of the Index component,  *)
(* lines 243-615).                                                         *)
(*                                                                         *)
(* The component's React state (isCapturing, photoCount,                   *)
(* hasCameraPermission) is kept twice: the value React holds, which every  *)
(* setState call updates, and the value the closures of the last render    *)
(* saw (rendered).  Handlers read the rendered values; Render refreshes    *)
(* them.  Refs (videoRef, canvasRef, prevImageDataRef, captureIntervalRef) *)
(* are plain mutable cells.                                                *)
(***************************************************************************)
EXTENDS Integers, Sequences, FiniteSets, TLC

(* ------------------------------- bounds ------------------------------- *)
\* Largest number of pixels of a frame.
MaxPixels == 3
\* Number of savePhoto calls explored in one behaviour.
MaxSaves == 2
\* Number of start() transitions explored in one behaviour.
MaxStarts == 2
\* Largest number of pixels of the frames the difference is measured on.
MaxLen == 2

(* --------------------------- program constants ------------------------ *)
\* Math.abs(c1 - c2) > 30
PixelThreshold == 30
\* difference >= 50
SaveThreshold == 50

(* ------------------------------- frames ------------------------------- *)
\* A pixel is <<r, g, b, a>>; a frame (ImageData.data, four bytes a pixel)
\* is a non-empty sequence of pixels.
Dark == <<0, 0, 0, 255>>
Lit == <<31, 0, 0, 255>>

\* Pixels around the per-channel threshold: Dim is 30 away from Dark in
\* every colour channel, Green and Blue are 31 away in one; Dim and Blue
\* have another alpha than Dark.
Dim == <<30, 30, 30, 0>>
Green == <<0, 31, 0, 255>>
Blue == <<0, 0, 31, 0>>
Pixels == {Dark, Lit, Dim, Green, Blue}

\* The frame of n pixels whose first k pixels are lit and whose others are dark.
Shot(n, k) == [i \in 1..n |-> IF i <= k THEN Lit ELSE Dark]

\* The frames the camera supplies: of two sizes (the resolution may change
\* between ticks), with every number of lit pixels.
Frames == {Shot(n, k) : n \in (MaxPixels - 1)..MaxPixels, k \in 0..MaxPixels}

\* null (of prevImageDataRef, of captureIntervalRef) and "no frame".
Null == <<>>
NoHandle == 0

Abs(x) == IF x < 0 THEN -x ELSE x

\* Variants of the test of the loop body: an inclusive threshold, and a test
\* that leaves the red channel out.
PixelDiffers_Inclusive(current, previous, i) ==
    /\ i <= Len(previous)
    /\ \/ Abs(current[i][1] - previous[i][1]) >= PixelThreshold
       \/ Abs(current[i][2] - previous[i][2]) >= PixelThreshold
       \/ Abs(current[i][3] - previous[i][3]) >= PixelThreshold
PixelDiffers_NoRed(current, previous, i) ==
    /\ i <= Len(previous)
    /\ \/ Abs(current[i][2] - previous[i][2]) > PixelThreshold
       \/ Abs(current[i][3] - previous[i][3]) > PixelThreshold

\* The test of the loop body for pixel i.  A read past the end of
\* previous.data yields undefined, the subtraction NaN, and every
\* comparison with NaN is false.
PixelDiffers(current, previous, i) ==
    /\ i <= Len(previous)
    /\ \/ Abs(current[i][1] - previous[i][1]) > PixelThreshold
       \/ Abs(current[i][2] - previous[i][2]) > PixelThreshold
       \/ Abs(current[i][3] - previous[i][3]) > PixelThreshold

RECURSIVE DiffCount(_, _, _)
\* diffCount after the loop has run from pixel i to the end of current.
DiffCount(current, previous, i) ==
    IF i > Len(current) THEN 0
    ELSE (IF PixelDiffers(current, previous, i) THEN 1 ELSE 0)
            + DiffCount(current, previous, i + 1)

\* (diffCount / totalPixels) * 100 as the fraction num / den.
calculateImageDifference(current, previous) ==
    [num |-> DiffCount(current, previous, 1) * 100, den |-> Len(current)]

\* Variants of the threshold test: an exclusive threshold, and a score that
\* was not divided by the pixel count.
OverThreshold_Exclusive(difference) == difference.num > SaveThreshold * difference.den
OverThreshold_Unscaled(difference) == difference.num >= SaveThreshold

\* difference >= 50
OverThreshold(difference) == difference.num >= SaveThreshold * difference.den

(* ------------------------------- state -------------------------------- *)
VARIABLES
    mounted,              \* the Index component is mounted
    stream,               \* camera stream: "requesting", "live", "denied", "stopped"
    srcObject,            \* the stream is attached to the video element
    videoRef,             \* videoRef.current is non-null
    canvasRef,            \* canvasRef.current is non-null
    isCapturing,          \* React state
    photoCount,           \* React state: the saved-frame counter
    hasCameraPermission,  \* React state
    rendered,             \* the state values the closures of the last render saw
    syncPending,          \* a click handler's updates await their synchronous render
    prevImageDataRef,     \* the Reference Frame, Null when none
    captureIntervalRef,   \* handle of the interval, NoHandle when null
    timers,               \* the armed intervals, each with its callback's closure
    nextHandle,           \* next handle window.setInterval returns
    inflight,             \* savePhoto calls awaiting their write / download
    saveSeq,              \* number of savePhoto calls so far
    toast,                \* the last notification raised
    session,              \* history: number of start() transitions so far
    lastToggle,           \* history: "none", "start" or "stop"
    requests,             \* history: savePhoto calls since the last start()
    lastAccepted,         \* history: frame of the last savePhoto call since start()
    ev,                   \* history: the last event and its inputs
    frameA,               \* a frame handed to calculateImageDifference
    frameB,               \* the other frame handed to it
    score,                \* calculateImageDifference(frameA, frameB) once computed
    reverse               \* calculateImageDifference(frameB, frameA) once computed

vars == <<mounted, stream, srcObject, videoRef, canvasRef, isCapturing, photoCount,
          hasCameraPermission, rendered, syncPending, prevImageDataRef,
          captureIntervalRef, timers, nextHandle, inflight, saveSeq, toast,
          session, lastToggle, requests, lastAccepted, ev,
          frameA, frameB, score, reverse>>

diffVars == <<frameA, frameB, score, reverse>>
viewVars == <<mounted, stream, srcObject, videoRef, canvasRef, isCapturing, photoCount,
              hasCameraPermission, rendered, syncPending, prevImageDataRef,
              captureIntervalRef, timers, nextHandle, inflight, saveSeq, toast,
              session, lastToggle, requests, lastAccepted, ev>>

camVars == <<stream, srcObject>>
refVars == <<videoRef, canvasRef>>
samplerVars == <<prevImageDataRef, photoCount, requests, lastAccepted>>
saveVars == <<inflight, saveSeq>>
timerVars == <<captureIntervalRef, timers, nextHandle>>
sessionVars == <<session, lastToggle>>

NoScore == [num |-> 0, den |-> 0]

\* The last event: op names the handler that ran; frame is the frame a tick
\* obtained (Null when it obtained none), had whether a Reference Frame was set
\* when it ran, score the Difference Score it computed, ok whether encoding
\* the canvas did not throw, data whether the data URL of the save that
\* completed held an image; n, sess and before describe the save or toggle
\* involved.
Event(op) ==
    [op |-> op, frame |-> Null, had |-> FALSE, score |-> NoScore, ok |-> TRUE,
     data |-> TRUE, n |-> 0, sess |-> 0, before |-> 0]

NoToast == [title |-> "none", n |-> 0]

\* The component after construction.
ViewInit ==
    /\ mounted = TRUE
    /\ stream = "requesting"
    /\ srcObject = FALSE
    /\ videoRef = TRUE
    /\ canvasRef = TRUE
    /\ isCapturing = FALSE
    /\ photoCount = 0
    /\ hasCameraPermission = FALSE
    /\ rendered = [isCapturing |-> FALSE, photoCount |-> 0, hasCameraPermission |-> FALSE]
    /\ syncPending = FALSE
    /\ prevImageDataRef = Null
    /\ captureIntervalRef = NoHandle
    /\ timers = {}
    /\ nextHandle = 1
    /\ inflight = {}
    /\ saveSeq = 0
    /\ toast = NoToast
    /\ session = 0
    /\ lastToggle = "none"
    /\ requests = 0
    /\ lastAccepted = Null
    /\ ev = Event("init")

Init ==
    /\ ViewInit
    /\ frameA = Null /\ frameB = Null
    /\ score = NoScore /\ reverse = NoScore

(* --------------------------- camera and view -------------------------- *)
\* Current values of the component's React state, as a render reads them.
Current ==
    [isCapturing |-> isCapturing, photoCount |-> photoCount,
     hasCameraPermission |-> hasCameraPermission]

\* A render of Index: the closures handed to the DOM and to later setInterval
\* calls see the current state values.
Render ==
    /\ mounted
    /\ rendered # Current
    /\ rendered' = Current
    /\ syncPending' = FALSE
    /\ ev' = Event("render")
    /\ UNCHANGED <<mounted, camVars, refVars, isCapturing, hasCameraPermission,
                   samplerVars, timerVars, saveVars, toast, sessionVars>>
    /\ UNCHANGED diffVars

\* initCamera: getUserMedia resolves; the stream is attached when the video
\* element is still there.
GetUserMediaResolve ==
    /\ ~syncPending
    /\ stream = "requesting"
    /\ stream' = "live"
    /\ srcObject' = videoRef
    /\ ev' = Event("getUserMedia")
    /\ UNCHANGED <<mounted, refVars, isCapturing, hasCameraPermission, rendered,
                   syncPending, samplerVars, timerVars, saveVars, toast, sessionVars>>
    /\ UNCHANGED diffVars

\* initCamera: getUserMedia rejects (or the API is missing).
GetUserMediaReject ==
    /\ ~syncPending
    /\ stream = "requesting"
    /\ stream' = "denied"
    /\ toast' = [title |-> "Kamera-Fehler", n |-> 0]
    /\ ev' = Event("getUserMediaFailed")
    /\ UNCHANGED <<mounted, srcObject, refVars, isCapturing, hasCameraPermission,
                   rendered, syncPending, samplerVars, timerVars, saveVars,
                   sessionVars>>
    /\ UNCHANGED diffVars

\* onloadedmetadata -> play() resolves, or onplaying, or tryPlayVideo's play().
VideoPlaying ==
    /\ ~syncPending
    /\ mounted /\ srcObject /\ stream = "live"
    /\ ~hasCameraPermission
    /\ hasCameraPermission' = TRUE
    /\ ev' = Event("playing")
    /\ UNCHANGED <<mounted, camVars, refVars, isCapturing, rendered, syncPending,
                   samplerVars, timerVars, saveVars, toast, sessionVars>>
    /\ UNCHANGED diffVars

\* play() rejects (autoplay blocked): the user is asked to tap the screen.
PlayRejected ==
    /\ ~syncPending
    /\ mounted /\ srcObject /\ stream = "live"
    /\ ~hasCameraPermission
    /\ toast' = [title |-> "Tippe auf den Bildschirm", n |-> 0]
    /\ ev' = Event("playFailed")
    /\ UNCHANGED <<mounted, camVars, refVars, isCapturing, hasCameraPermission,
                   rendered, syncPending, samplerVars, timerVars, saveVars,
                   sessionVars>>
    /\ UNCHANGED diffVars

\* The view is torn down: React detaches the refs and runs the effect's
\* cleanup.  Whether the cleanup still sees videoRef.current depends on the
\* order in which the React build detaches refs and runs passive cleanups.
Unmount ==
    /\ ~syncPending
    /\ mounted
    /\ mounted' = FALSE
    /\ videoRef' = FALSE
    /\ canvasRef' = FALSE
    /\ \E cleanupSeesRef \in BOOLEAN :
          stream' = IF cleanupSeesRef /\ srcObject THEN "stopped" ELSE stream
    /\ ev' = Event("unmount")
    /\ UNCHANGED <<srcObject, isCapturing, hasCameraPermission, rendered, syncPending,
                   samplerVars, timerVars, saveVars, toast, sessionVars>>
    /\ UNCHANGED diffVars

(* ------------------------------ persistence --------------------------- *)
\* What canvas.toDataURL('image/jpeg', 0.9) does: it returns a data URL or
\* it throws.  The data URL is the frame as a JPEG, or "data:," (no data)
\* when the bitmap cannot be serialised; savePhoto never looks at which, so
\* which it was is drawn where the save completes.
Encodings == {"returns", "throws"}

\* The record of a savePhoto call whose write (native) or download (web) is
\* outstanding: n is the number its success toast will show, photoCount + 1
\* with the photoCount of the closure that made the call; before is the
\* counter when the call was made.
SaveRecord(closureCount, encoding) ==
    [id |-> saveSeq + 1, sess |-> session, n |-> closureCount + 1, before |-> photoCount]

\* savePhoto(canvas), up to its first await.  canvas.toDataURL reads the
\* frame now; when it throws the catch block raises the failure toast at
\* once, otherwise the call is outstanding with whatever data URL it got.
savePhoto(closureCount, encoding) ==
    /\ saveSeq' = saveSeq + 1
    /\ requests' = requests + 1
    /\ IF encoding # "throws"
         THEN /\ inflight' = inflight \cup {SaveRecord(closureCount, encoding)}
              /\ UNCHANGED toast
         ELSE /\ toast' = [title |-> "Fehler", n |-> 0]
              /\ UNCHANGED inflight

\* Variants of the completion of a save: a failure takes the accept back, a
\* success sets the counter to the number of the save that completed, a
\* failure clears the Reference Frame.
CounterAfterSave_Rollback(s, succeeded, count) == IF succeeded THEN count ELSE count - 1
CounterAfterSave_Completed(s, succeeded, count) == IF succeeded THEN s.n ELSE count
ReferenceAfterSave_Clear(s, succeeded, reference) == IF succeeded THEN reference ELSE Null

\* What the completion of an outstanding save does to the counter and to the
\* Reference Frame: nothing, whether it succeeded or failed.
CounterAfterSave(s, succeeded, count) == count
ReferenceAfterSave(s, succeeded, reference) == reference

\* Variant: a failed save ends the capture sequence.
TimersAfterSave_StopOnFailure(s, succeeded, armed) == IF succeeded THEN armed ELSE {}

\* What the completion of a save does to the armed intervals: nothing.
TimersAfterSave(s, succeeded, armed) == armed

\* The rest of savePhoto: Filesystem.writeFile / fetch(dataUrl) settles;
\* data tells whether the data URL that was written held an image.
SaveSettles(s, succeeded, data) ==
    /\ ~syncPending
    /\ s \in inflight
    /\ inflight' = inflight \ {s}
    /\ toast' = IF succeeded THEN [title |-> "Foto gespeichert", n |-> s.n]
                ELSE [title |-> "Fehler", n |-> 0]
    /\ photoCount' = CounterAfterSave(s, succeeded, photoCount)
    /\ prevImageDataRef' = ReferenceAfterSave(s, succeeded, prevImageDataRef)
    /\ timers' = TimersAfterSave(s, succeeded, timers)
    /\ ev' = [Event(IF succeeded THEN "saveOk" ELSE "saveFailed") EXCEPT
                 !.ok = succeeded, !.data = data, !.n = s.id, !.sess = s.sess, !.before = s.before]
    /\ UNCHANGED <<mounted, camVars, refVars, isCapturing, hasCameraPermission,
                   rendered, syncPending, requests, lastAccepted, captureIntervalRef,
                   nextHandle, saveSeq, sessionVars>>
    /\ UNCHANGED diffVars

(* ------------------------------- the tick ----------------------------- *)
\* The Capture Source can supply a frame: both elements are there and
\* canvas.getContext('2d') returns a context.
Supplied(context) == videoRef /\ canvasRef /\ context

\* Variants: the check of the 2D context is missing; the check of the two
\* refs is missing.
FrameAvailable_NoContextCheck(context) == videoRef /\ canvasRef
FrameAvailable_NoRefCheck(context) == context

\* if (!videoRef.current || !canvasRef.current) return; ... if (!context) return;
FrameAvailable(context) == videoRef /\ canvasRef /\ context

\* Variant: no branch for the first frame of a session.
Accepts_NoFirstFrame(frame, reference) ==
    OverThreshold(calculateImageDifference(frame, reference))

\* The decision of capturePhoto: the first frame of a session, or a frame
\* whose difference from the Reference Frame is at least 50.
Accepts(frame, reference) ==
    \/ reference = Null
    \/ OverThreshold(calculateImageDifference(frame, reference))

\* Variant: the updater is applied twice.
IncrementCount_Twice(count) == count + 2

\* setPhotoCount(prev => prev + 1)
IncrementCount(count) == count + 1

\* Variant: the reference follows the last sampled frame.
ReferenceAfterTick_LastSampled(frame, reference) == frame

\* prevImageDataRef.current after a tick that sampled frame.
ReferenceAfterTick(frame, reference) ==
    IF Accepts(frame, reference) THEN frame ELSE reference

\* One firing of the interval t: capturePhoto as the closure of t sees it.
\* context: canvas.getContext('2d') returned a context; frame: the pixels
\* getImageData returns; encoding: what canvas.toDataURL does.
capturePhoto(t, context, frame, encoding) ==
    /\ ~syncPending
    /\ t \in timers
    /\ (FrameAvailable(context) /\ Accepts(frame, prevImageDataRef)) => saveSeq < MaxSaves
    /\ ev' = IF Supplied(context)
               THEN [Event("tick") EXCEPT
                        !.frame = frame,
                        !.had = (prevImageDataRef # Null),
                        !.score = IF prevImageDataRef # Null
                                    THEN calculateImageDifference(frame, prevImageDataRef)
                                    ELSE NoScore,
                        !.ok = (encoding # "throws")]
               ELSE Event("tick")
    /\ IF ~FrameAvailable(context)
         THEN UNCHANGED <<samplerVars, saveVars, toast>>
         ELSE /\ prevImageDataRef' = ReferenceAfterTick(frame, prevImageDataRef)
              /\ IF Accepts(frame, prevImageDataRef)
                   THEN /\ savePhoto(t.photoCount, encoding)
                        /\ photoCount' = IncrementCount(photoCount)
                        /\ lastAccepted' = frame
                   ELSE UNCHANGED <<photoCount, requests, lastAccepted, saveVars, toast>>
    /\ UNCHANGED <<mounted, camVars, refVars, isCapturing, hasCameraPermission,
                   rendered, syncPending, timerVars, sessionVars>>
    /\ UNCHANGED diffVars

(* ------------------------------ the toggle ---------------------------- *)
\* Variant: the interval is not cleared.
ClearInterval_Leak(armed, handle) == armed

\* window.clearInterval(handle)
ClearInterval(armed, handle) == {t \in armed : t.id # handle}

\* Variant: the handle of the new interval is not kept.
SetInterval_NoHandle(armed, handle, count) ==
    armed \cup {[id |-> handle + 1, photoCount |-> count]}

\* window.setInterval(capturePhoto, 500) with the capturePhoto of the render
\* whose closure saw count as photoCount.
SetInterval(armed, handle, count) == armed \cup {[id |-> handle, photoCount |-> count]}

\* Variant: the counter is not reset.
ResetCount_Keep(count) == count

\* The reset at the start of a capture sequence.
ResetCount(count) == 0
ResetReference(reference) == Null

\* toggleCapture, the branch taken when the closure's isCapturing is true.
StopCapture ==
    /\ rendered.isCapturing
    /\ IF captureIntervalRef # NoHandle
         THEN /\ timers' = ClearInterval(timers, captureIntervalRef)
              /\ captureIntervalRef' = NoHandle
         ELSE UNCHANGED <<timers, captureIntervalRef>>
    /\ toast' = [title |-> "Aufnahme beendet", n |-> rendered.photoCount]
    /\ lastToggle' = "stop"
    /\ ev' = [Event("stop") EXCEPT !.before = photoCount, !.sess = session]
    /\ UNCHANGED <<samplerVars, nextHandle, session>>

\* toggleCapture, the branch taken when the closure's isCapturing is false.
StartCapture ==
    /\ ~rendered.isCapturing
    /\ session < MaxStarts
    /\ photoCount' = ResetCount(photoCount)
    /\ prevImageDataRef' = ResetReference(prevImageDataRef)
    /\ captureIntervalRef' = nextHandle
    /\ timers' = SetInterval(timers, nextHandle, rendered.photoCount)
    /\ nextHandle' = nextHandle + 1
    /\ toast' = [title |-> "Aufnahme gestartet", n |-> 0]
    /\ session' = session + 1
    /\ lastToggle' = "start"
    /\ requests' = 0
    /\ lastAccepted' = Null
    /\ ev' = [Event("start") EXCEPT !.before = photoCount, !.sess = session + 1]

\* Variant: the flag is set without the negation.
NextIsCapturing_Same(flag) == flag

\* setIsCapturing(!isCapturing), with the isCapturing of the closure.
NextIsCapturing(flag) == ~flag

\* A click on the capture button.  The button is disabled while the rendered
\* hasCameraPermission is false; the updates of a click handler are rendered
\* before any other event is handled.
toggleCapture ==
    /\ mounted
    /\ ~syncPending
    /\ rendered.hasCameraPermission
    /\ StopCapture \/ StartCapture
    /\ isCapturing' = NextIsCapturing(rendered.isCapturing)
    /\ syncPending' = TRUE
    /\ UNCHANGED <<mounted, camVars, refVars, hasCameraPermission, rendered, saveVars>>
    /\ UNCHANGED diffVars

(* ---------------------------- specification --------------------------- *)
\* The inputs of a tick.  A tick that obtains no frame does not read the
\* pixels, and a tick that does not call savePhoto does not run the encoder,
\* so one choice of them stands for all.
SomeFrame == <<Dark>>

Tick ==
    \E t \in timers, context \in BOOLEAN :
        \E frame \in (IF Supplied(context) THEN Frames ELSE {SomeFrame}) :
            \E encoding \in (IF Supplied(context) /\ Accepts(frame, prevImageDataRef)
                                THEN Encodings ELSE {"returns"}) :
                capturePhoto(t, context, frame, encoding)

SaveDone ==
    \E s \in inflight, succeeded \in BOOLEAN, data \in BOOLEAN :
        SaveSettles(s, succeeded, data)

Next ==
    \/ Render
    \/ GetUserMediaResolve
    \/ GetUserMediaReject
    \/ VideoPlaying
    \/ PlayRejected
    \/ Unmount
    \/ toggleCapture
    \/ Tick
    \/ SaveDone

Spec == Init /\ [][Next]_vars

(* ----------------------- the difference, on its own ------------------- *)
\* The frames of up to n pixels over Pixels.
RECURSIVE FramesUpTo(_)
FramesUpTo(n) ==
    IF n = 0 THEN {}
    ELSE FramesUpTo(n - 1) \cup [1..n -> Pixels]

\* The frame of n pixels whose pixel i has red value r + 100 * (i - 1)
\* modulo 256, and the frame with every red value shifted by 31 modulo 256.
RedFrame(n, r) == [i \in 1..n |-> <<(r + 100 * (i - 1)) % 256, 7, 7, 255>>]
ShiftRed(frame) ==
    [i \in 1..Len(frame) |-> <<(frame[i][1] + 31) % 256, frame[i][2], frame[i][3], frame[i][4]>>]
RedFrames == {RedFrame(n, r) : n \in 1..MaxLen, r \in 0..255}

DiffInit ==
    /\ ViewInit
    /\ \/ frameA \in FramesUpTo(MaxLen) /\ frameB \in FramesUpTo(MaxLen)
       \/ frameA \in RedFrames /\ frameB = ShiftRed(frameA)
    /\ score = NoScore /\ reverse = NoScore

\* calculateImageDifference(frameA, frameB)
Measure ==
    /\ score = NoScore
    /\ score' = calculateImageDifference(frameA, frameB)
    /\ UNCHANGED <<viewVars, frameA, frameB, reverse>>

\* calculateImageDifference(frameB, frameA)
MeasureReverse ==
    /\ reverse = NoScore
    /\ reverse' = calculateImageDifference(frameB, frameA)
    /\ UNCHANGED <<viewVars, frameA, frameB, score>>

DiffNext ==
    \/ Measure
    \/ MeasureReverse

DiffSpec == DiffInit /\ [][DiffNext]_vars

(* ------------------------------- claims ------------------------------- *)
\* A step is the tick procedure obtaining a frame / the completion of a save.
TickWithFrame == ev'.op = "tick" /\ ev'.frame # Null
SaveCompletes == ev'.op \in {"saveOk", "saveFailed"}

\* C1: the first tick of a session that obtains a frame (no Reference Frame
\* set) requests a save, makes the counter 1 and makes that frame the
\* Reference Frame, whatever the frame holds.
C1_FirstTickAccepts ==
    [][(TickWithFrame /\ prevImageDataRef = Null)
          => /\ saveSeq' = saveSeq + 1
             /\ photoCount' = 1
             /\ prevImageDataRef' = ev'.frame]_vars

\* A second session's first tick has accepted a frame of lit pixels.
C1_Witness ==
    /\ ev.op = "tick" /\ ev.frame = Shot(2, 2) /\ ~ev.had
    /\ session = 2 /\ photoCount = 1 /\ prevImageDataRef = ev.frame

C3_BelowThresholdRejects ==
    [][(TickWithFrame /\ ev'.had /\ ev'.score.num < 50 * ev'.score.den)
          => UNCHANGED <<prevImageDataRef, photoCount, saveSeq, inflight, requests>>]_vars

\* A frame that differs from the Reference Frame in a third of its pixels
\* has been sampled and rejected.
C3_Witness ==
    /\ ev.op = "tick" /\ ev.had
    /\ 0 < ev.score.num /\ ev.score.num < 50 * ev.score.den
    /\ ev.frame # prevImageDataRef /\ photoCount = 1

\* C4: the Reference Frame is none or the frame of the session's most recent
\* accept, and a tick scores its frame against that accepted frame, not
\* against the frame sampled last.
C4_ReferenceIsLastAccepted ==
    /\ [](prevImageDataRef = lastAccepted)
    /\ [][(TickWithFrame /\ ev'.had)
             => ev'.score = calculateImageDifference(ev'.frame, lastAccepted)]_vars

\* After two accepts a further frame, different from the Reference Frame,
\* has been sampled and did not become the Reference Frame.
C4_Witness ==
    /\ ev.op = "tick" /\ ev.had /\ ev.frame # Null
    /\ requests = 2 /\ prevImageDataRef = lastAccepted /\ ev.frame # prevImageDataRef

\* C5: between a stop and the next start no tick is executed.
C5_NoTickAfterStop ==
    [][lastToggle = "stop" => ev'.op # "tick"]_vars

\* The second session has been stopped, its ticks had run, and other events
\* still arrive.
C5_Witness ==
    /\ lastToggle = "stop" /\ session = 2 /\ requests > 0
    /\ ev.op \in {"saveOk", "saveFailed"} /\ timers = {}

\* C6: a start resets the counter to 0 and the Reference Frame to none,
\* also after a session that saved frames, and the first tick of the new
\* session that obtains a frame leaves the counter at 1.
C6_StartResets ==
    [][/\ ev'.op = "start" => (photoCount' = 0 /\ prevImageDataRef' = Null)
       /\ (TickWithFrame /\ lastToggle = "start" /\ requests = 0) => photoCount' = 1]_vars

\* A session that saved a frame was stopped, and the first tick of the next
\* session has run.
C6_Witness ==
    /\ session = 2 /\ saveSeq = 2 /\ requests = 1
    /\ ev.op = "tick" /\ photoCount = 1

\* C7, as claimed: once the save an accepting tick requested has failed, the
\* counter has the value it had before that tick (no accept and no start
\* came after the request).
C7_FailureRejectsTick ==
    [][(ev'.op = "saveFailed" /\ ev'.n = saveSeq /\ ev'.sess = session)
          => photoCount' = ev'.before]_vars

\* C7, amended: a failing save leaves the counter and the Reference Frame as
\* the accepting tick set them: a failure that arrives later changes
\* neither, and a tick whose save fails at once still counts and still
\* replaces the Reference Frame.
C7_FailureKeepsAccept ==
    [][/\ ev'.op = "saveFailed" => UNCHANGED <<photoCount, prevImageDataRef>>
       /\ (TickWithFrame /\ ~ev'.ok /\ saveSeq' = saveSeq + 1)
             => (photoCount' = photoCount + 1 /\ prevImageDataRef' = ev'.frame)]_vars

\* The save of the session's latest accept has failed and the accept stands.
C7_Witness ==
    /\ ev.op = "saveFailed" /\ ev.n = saveSeq /\ ev.sess = session
    /\ photoCount = ev.before + 1 /\ prevImageDataRef = lastAccepted

\* C8: whatever the order in which saves complete or fail, the counter is
\* the number of accepts of the session and the Reference Frame is the frame
\* of the accept triggered last.
C8_TickOrder ==
    /\ photoCount = requests
    /\ requests > 0 => prevImageDataRef = lastAccepted
    /\ requests = 0 => prevImageDataRef = Null

\* The second save of a session has completed while the first is still
\* outstanding.
C8_Witness ==
    /\ ev.op \in {"saveOk", "saveFailed"} /\ ev.sess = session
    /\ \E s \in inflight : s.sess = session /\ s.id < ev.n
    /\ photoCount = 2

\* C9: the completion of a save that was outstanding when the session was
\* stopped changes neither the counter nor the Reference Frame, those of a
\* later session included.
C9_LateSaveHarmless ==
    [][(SaveCompletes /\ (lastToggle = "stop" \/ ev'.sess # session))
          => UNCHANGED <<photoCount, prevImageDataRef>>]_vars

\* A save of the first session has failed after the second session accepted
\* its first frame.
C9_Witness ==
    /\ ev.op = "saveFailed" /\ ev.sess = 1 /\ session = 2
    /\ lastToggle = "start" /\ photoCount = 1 /\ prevImageDataRef # Null

\* C10: a tick that obtains no frame requests no save, leaves the counter
\* and the Reference Frame alone, and leaves the session running with its
\* timer armed.
C10_SkippedTickIsNoOp ==
    [][(ev'.op = "tick" /\ ev'.frame = Null)
          => UNCHANGED <<prevImageDataRef, photoCount, saveSeq, inflight, requests,
                         toast, timers, captureIntervalRef, isCapturing>>]_vars

\* In a running session with an accepted frame, a tick found no 2D context.
C10_Witness ==
    /\ ev.op = "tick" /\ ev.frame = Null
    /\ mounted /\ isCapturing /\ captureIntervalRef # NoHandle /\ requests = 1

\* C11: no error stops the session.  A failed save and a skipped tick leave
\* the interval armed and the session running, so that a further tick can
\* run whenever the session is running, and once a stop has been rendered
\* the button offers a start again.
C11_ErrorsKeepSession ==
    /\ [][(\/ ev'.op = "saveFailed"
           \/ (ev'.op = "tick" /\ (ev'.frame = Null \/ ~ev'.ok)))
             => UNCHANGED <<timers, captureIntervalRef, isCapturing, lastToggle>>]_vars
    /\ [](lastToggle = "start" => \E t \in timers : t.id = captureIntervalRef)
    /\ []((lastToggle = "stop" /\ mounted /\ ~syncPending)
             => (rendered.hasCameraPermission /\ ~rendered.isCapturing))

\* In a running session a save has failed, and a later tick has sampled a
\* frame against the Reference Frame.
C11_Witness ==
    /\ ev.op = "tick" /\ ev.had /\ ev.score.num < 50 * ev.score.den
    /\ toast.title = "Fehler" /\ lastToggle = "start" /\ inflight = {}
    /\ \E t \in timers : t.id = captureIntervalRef

\* C12: once the view is torn down, no track of an acquired camera stream is
\* live, whatever the order of getUserMedia resolving and the teardown.
C12_StreamReleased ==
    ~mounted => stream # "live"

\* C13: from one start to the next the counter changes only by an accepting
\* tick adding 1 to it, and it is the number of frames accepted since the
\* start; the only other change is the reset to 0 by a start.
C13_CounterCountsAccepts ==
    /\ [][photoCount' # photoCount
             => \/ (ev'.op = "start" /\ photoCount' = 0)
                \/ /\ TickWithFrame
                   /\ lastToggle = "start"
                   /\ photoCount' = photoCount + 1
                   /\ requests' = requests + 1]_vars
    /\ [](photoCount = requests /\ photoCount >= 0)

\* Two frames have been accepted in a running session, the second against
\* the first.
C13_Witness ==
    /\ ev.op = "tick" /\ ev.had /\ ev.frame = prevImageDataRef
    /\ lastToggle = "start" /\ photoCount = 2 /\ requests = 2

\* C18: the success notification of the k-th frame accepted since the start
\* shows the number k.
C18_ToastShowsSequenceNumber ==
    [][ev'.op = "saveOk"
          => toast' = [title |-> "Foto gespeichert", n |-> ev'.before + 1]]_vars

\* C17: every save that fails raises the failure notification: a save whose
\* encoding throws, a save whose write or download is rejected, and a save
\* whose encoding yielded no data.
C17_EveryFailureReported ==
    [][(\/ (TickWithFrame /\ saveSeq' = saveSeq + 1 /\ ~ev'.ok)
        \/ ev'.op = "saveFailed"
        \/ (SaveCompletes /\ ~ev'.data))
          => toast' = [title |-> "Fehler", n |-> 0]]_vars

C20_FlagMatchesTimer ==
    /\ isCapturing <=> captureIntervalRef # NoHandle
    /\ isCapturing <=> timers # {}
    /\ ~syncPending => rendered.isCapturing = isCapturing

\* A second session is running and rendered: the flag is shown and an
\* interval is armed.
C20_Witness ==
    /\ isCapturing /\ rendered.isCapturing /\ ~syncPending /\ mounted
    /\ captureIntervalRef # NoHandle /\ session = 2 /\ ev.op = "render"

\* The test of the metric as the contract states it: some colour channel of
\* pixel i is more than 30 apart in the two frames.
ChannelApart(a, b, i) ==
    \E c \in 1..3 : a[i][c] - b[i][c] > 30 \/ b[i][c] - a[i][c] > 30

\* frame with the alpha of every pixel set to alpha.
WithAlpha(frame, alpha) ==
    [i \in 1..Len(frame) |-> <<frame[i][1], frame[i][2], frame[i][3], alpha>>]

\* C14: for two frames of the same size the difference is the number of
\* pixels with a colour channel more than 30 apart, over the number of
\* pixels, times 100; it lies in [0, 100]; and it is the same whatever the
\* alpha values of the two frames are.
C14_ScoreIsShareOfChangedPixels ==
    (score # NoScore /\ Len(frameA) = Len(frameB))
        => /\ score.num = 100 * Cardinality({i \in 1..Len(frameA) : ChannelApart(frameA, frameB, i)})
           /\ score.den = Len(frameA)
           /\ 0 <= score.num /\ score.num <= 100 * score.den
           /\ \A alpha1, alpha2 \in {0, 255} :
                 calculateImageDifference(WithAlpha(frameA, alpha1), WithAlpha(frameB, alpha2))
                     = score

\* Two frames of two pixels: the first pixels are 30 apart in every colour
\* channel and differ in alpha, the second are 31 apart in green; one of the
\* two pixels counts.
C14_Witness ==
    /\ frameA = <<Dark, Dark>> /\ frameB = <<Dim, Green>>
    /\ score = [num |-> 100, den |-> 2]

\* C15: the difference of two frames is the same in both orders, whatever
\* their sizes.
C15_Symmetric ==
    (score # NoScore /\ reverse # NoScore)
        => score.num * reverse.den = reverse.num * score.den

\* C16: when frameB is frameA with every red value shifted by 31 modulo 256,
\* the difference is 100.
C16_RedShiftIsFullChange ==
    (score # NoScore /\ frameB = ShiftRed(frameA))
        => score.num = 100 * score.den

\* A frame whose red values wrap under the shift (230 becomes 5) has been
\* measured against its shifted frame.
C16_Witness ==
    /\ frameA = RedFrame(MaxLen, 230) /\ frameB = ShiftRed(frameA)
    /\ frameB[1][1] = 5
    /\ score # NoScore /\ score.num = 100 * score.den

\* C21: tearing the view down leaves the interval armed and its handle in
\* captureIntervalRef, so a session that was running keeps its interval for
\* good; every tick after the teardown obtains no frame, requests no save
\* and leaves the counter and the Reference Frame as they were.
C21_TicksAfterTeardownAreNoOps ==
    /\ [][ev'.op = "unmount" => UNCHANGED <<timers, captureIntervalRef, nextHandle>>]_vars
    /\ []((~mounted /\ lastToggle = "start") => \E t \in timers : t.id = captureIntervalRef)
    /\ [][(ev'.op = "tick" /\ ~mounted)
             => /\ ev'.frame = Null
                /\ UNCHANGED <<saveSeq, inflight, requests, photoCount, prevImageDataRef,
                               lastAccepted, timers>>]_vars

\* The view was torn down in a running session that had accepted a frame,
\* and the interval, still armed, has fired since.
C21_Witness ==
    /\ ~mounted /\ ev.op = "tick" /\ ev.frame = Null
    /\ lastToggle = "start" /\ isCapturing /\ timers # {}
    /\ requests = 1 /\ photoCount = 1 /\ prevImageDataRef # Null

====
